---- MODULE Spec2Model ----
(***************************************************************************)
(* Portfolio analytics engine of src/streamlit_app.py.                     *)
(*                                                                         *)
(* Part 1: EfficientFrontier (the class definition at line 1896, which     *)
(*         rebinds the name defined at line 1453 and is the one the        *)
(*         program calls): get_historical_data and get_efficient_frontier. *)
(* Part 2: DiversificationAnalyzer: calculate_concentration_metrics and    *)
(*         _get_concentration_level.                                       *)
(* Part 3: RiskPerformanceAnalyzer: calculate_advanced_metrics, get_beta   *)
(*         and get_performance_grade.                                      *)
(* Part 4: PortfolioManager.calculate_annualized_return.                   *)
(* Part 5: the session portfolio: add_stock_to_portfolio and the runs of   *)
(*         main (import of a file, add button, content).                   *)
(* Part 6: download_data_with_retry (a method of the class definition at   *)
(*         line 1453).                                                     *)
(* Part 7: EfficientFrontier.negative_sharpe_ratio and                     *)
(*         generate_efficient_frontier_curve (the definition at line 1896).*)
(*                                                                         *)
(* Numbers.  Weights of the optimizer are integers in units of 1/200       *)
(* (0.5%), so that the display filter 0.005 is one unit.  Weights of the   *)
(* concentration analyzer are integers over the denominator of their       *)
(* table; HHI, 1/HHI and the top-3 weight are doubles <<numerator,         *)
(* denominator, ulps>>: the double that many places from the one nearest   *)
(* to the quotient.                                                        *)
(* Prices, returns and covariances are not valued: a price table is the    *)
(* pattern of its missing prices and of its prices of 0, which is what the *)
(* filters, the count of returns and the covariance check read.            *)
(* Performances are whole percents; the maximum drawdown and the betas are *)
(* exact rationals; the Sharpe and Sortino ratios graded are in tenths.    *)
(* The Sortino ratio computed is a fraction over the square root of a      *)
(* fraction; var_95 and cvar_95 are exact rationals.                       *)
(***************************************************************************)
EXTENDS FiniteSets, Integers, Sequences, TLC

VARIABLES
    efPhase,        \* "idle" | "fetched" | "solving" | "returned": position in get_efficient_frontier
    symbols,        \* the symbols argument of get_efficient_frontier
    data,           \* what yf.download answered inside get_historical_data: [ok, frame]
    price_data,     \* local price_data (result of get_historical_data)
    n_returns,      \* len(returns) after pct_change().dropna()
    solver,         \* the call of scipy minimize: [invoked, raised, num_assets, assets, result]
    results_df,     \* returned weights table: sequence of [symbol, weight]
    metrics,        \* returned dict
    anPhase,        \* "idle" | "returned": position of the concentration request
    df,             \* the DataFrame argument: [has_weight, weight]
    concentration,  \* the dict returned by calculate_concentration_metrics
    hhi_arg,        \* the argument of a direct call of _get_concentration_level
    level,          \* what that call returned
    riskPhase,      \* "idle" | "metrics" | "beta" | "graded": the RiskPerformanceAnalyzer call made
    risk_args,      \* the arguments of that call
    risk_result,    \* what it returned
    pmPhase,        \* "idle" | "returned": the call of calculate_annualized_return
    pm_args,        \* its arguments [initial_value, final_value, days_held]
    pm_result,      \* what it returned
    sessPhase,      \* "idle" | "add" | "add_button" | "content" | "welcome": how the last session step ended
    portfolio_df,   \* st.session_state.portfolio_df: sequence of positions
    session_error,  \* the exception that ended the last handler, "" when it finished
    curvePhase,     \* "idle" | "objective" | "curve" | "curve_again": the EfficientFrontier call made
    curve_args,     \* the arguments of that call
    curve_result,   \* what it returned
    dlPhase,        \* "idle" | "trying" | "returned" | "raised": position in download_data_with_retry
    dl_args,        \* max_retries and what each attempt will answer
    dl_result       \* the attempts made and what the call returned

efVars == <<efPhase, symbols, data, price_data, n_returns, solver, results_df, metrics>>
anVars == <<anPhase, df, concentration, hhi_arg, level>>
riskVars == <<riskPhase, risk_args, risk_result>>
pmVars == <<pmPhase, pm_args, pm_result>>
sessVars == <<sessPhase, portfolio_df, session_error>>
curveVars == <<curvePhase, curve_args, curve_result>>
dlVars == <<dlPhase, dl_args, dl_result>>
restVars == <<sessVars, curveVars, dlVars>>
vars == <<efVars, anVars, riskVars, pmVars, restVars>>

\* No call of the session portfolio, the frontier curve or the download is under way.
RestIdle == sessPhase = "idle" /\ curvePhase = "idle" /\ dlPhase = "idle"

(***************************************************************************)
(* Bounds of the model.                                                    *)
(***************************************************************************)
MaxSymbols == 3        \* longest symbols list requested
MaxFull == 32          \* most rows of the provider's table with every price present
MaxGap == 13           \* most rows on which one given instrument alone is missing
MaxSmallWeight == 2    \* solver weights: all entries but one are at most this many units
MaxPositions == 4      \* most rows of the position table
WeightBits == 2        \* a position weight of a drawn table has this many binary places
MaxWeight == 4         \* largest position weight, in multiples of 1/WeightDen
MaxEqualPositions == 5 \* most rows of a position table of equal weights 1/n
MaxHhi == 400          \* largest HHI, in thousandths, of a direct call of _get_concentration_level
MaxRiskRows == 2       \* most rows of the table given to calculate_advanced_metrics
MaxPerf == 1           \* largest gain of a position, in tens of percent
RowSpread == 1         \* the histories of get_beta have 50 rows, give or take this many
MaxRatio == 30         \* largest Sharpe or Sortino ratio graded, in tenths
MaxNegativeRatio == 5  \* the smallest ratio graded is minus this many tenths
MaxAmount == 3         \* largest initial or final value given to calculate_annualized_return
MaxDays == 3           \* largest days_held given to calculate_annualized_return
MaxRows == 2           \* most positions of the session portfolio
MaxQuantity == 2       \* largest quantity added
MaxNanReturns == 2     \* most rows of a price table whose return is 0/0
MaxReturnRows == 3     \* most rows of a table given to calculate_advanced_metrics without symbols
MaxRetries == 3        \* largest max_retries given to download_data_with_retry
CurveDen == 4          \* frontier-curve weights are multiples of 1/CurveDen
MaxPortfolios == 2     \* largest num_portfolios given to generate_efficient_frontier_curve

(***************************************************************************)
(* Program constants.                                                      *)
(***************************************************************************)
WeightScale == 200     \* units per 1.0 of optimizer weight: 0.005 is one unit
MinWeightUnits == 1    \* results_df['weight'] > 0.005
ThreshNum == 7         \* thresh = len(data) * 0.7
ThreshDen == 10
MinObservations == 30  \* len(returns) < 30
MinAssets == 2         \* len(price_data.columns) < 2
MinHistory == 50       \* get_beta: fewest rows of a history for the regression

Tickers == <<"AAPL", "GOOG", "MSFT", "NVDA", "TSLA">>

Number == "float"      \* a metric value; the model does not value it

(***************************************************************************)
(* Sequences.                                                              *)
(***************************************************************************)
Range(s) == {s[i] : i \in 1..Len(s)}

\* The sum of a sequence of integers, by halves.
RECURSIVE SumSeq(_)
SumSeq(s) ==
    IF Len(s) = 0 THEN 0
    ELSE IF Len(s) = 1 THEN s[1]
    ELSE SumSeq(SubSeq(s, 1, Len(s) \div 2)) + SumSeq(SubSeq(s, Len(s) \div 2 + 1, Len(s)))

Rank(t) == CHOOSE i \in 1..Len(Tickers) : Tickers[i] = t

Perms(S) == {p \in [1..Cardinality(S) -> S] : Range(p) = S}

\* Alphabetical order of a set of tickers.
Sorted(S) == CHOOSE p \in Perms(S) : \A i, j \in 1..Cardinality(S) : i < j => Rank(p[i]) < Rank(p[j])

(***************************************************************************)
(* Price tables: cols is the column order, runs the rows in date order,    *)
(* run-length encoded: n consecutive rows whose non-missing columns are    *)
(* exactly `present` and on which the columns of `zero` have the price 0,  *)
(* every other price being positive.                                       *)
(***************************************************************************)
EmptyFrame == [cols |-> <<>>, runs |-> <<>>]

NumRows(t) == SumSeq([i \in 1..Len(t.runs) |-> t.runs[i].n])

\* The canonical run-length encoding: no empty run, no two adjacent runs alike.
RECURSIVE Canon(_)
Canon(runs) ==
    IF Len(runs) = 0 THEN <<>>
    ELSE IF Head(runs).n = 0 THEN Canon(Tail(runs))
    ELSE LET rest == Canon(Tail(runs))
         IN IF /\ Len(rest) > 0
               /\ Head(rest).present = Head(runs).present
               /\ Head(rest).zero = Head(runs).zero
            THEN <<[present |-> Head(runs).present, zero |-> Head(runs).zero,
                    n |-> Head(runs).n + Head(rest).n]>> \o Tail(rest)
            ELSE <<Head(runs)>> \o rest

\* DataFrame.count() of one column.
Count(t, c) == SumSeq([i \in 1..Len(t.runs) |-> IF c \in t.runs[i].present THEN t.runs[i].n ELSE 0])

\* DataFrame.empty
IsEmpty(t) == Len(t.cols) = 0 \/ NumRows(t) = 0

IsKept(t, c) == ThreshDen * Count(t, c) >= ThreshNum * NumRows(t)

\* data.dropna(thresh=len(data) * 0.7, axis=1): a column stays when it has at
\* least thresh non-missing values; its prices go with a dropped column.
DropNaColumns(t) ==
    LET keep(c) == IsKept(t, c)
    IN [cols |-> SelectSeq(t.cols, keep),
        runs |-> Canon([i \in 1..Len(t.runs) |->
                    [present |-> {c \in t.runs[i].present : keep(c)},
                     zero |-> {c \in t.runs[i].zero : keep(c)},
                     n |-> t.runs[i].n]])]

\* data.dropna(): a row stays when none of its columns is missing.
DropNaRows(t) ==
    LET full(r) == Range(t.cols) \subseteq r.present
    IN [cols |-> t.cols, runs |-> Canon(SelectSeq(t.runs, full))]

get_historical_data(resp) ==
    IF ~resp.ok THEN EmptyFrame
    ELSE DropNaRows(DropNaColumns(resp.frame))

\* price_data.pct_change() on a table without missing prices.  The return
\* of a row is 0/0 (NaN) in a column whose price is 0 on that row and on the
\* row before, and infinite in a column whose price was 0 on the row before
\* and is positive now.  NanRows: the rows after the first with a NaN.
NanRows(t) ==
    SumSeq([i \in 1..Len(t.runs) |->
              (IF t.runs[i].zero # {} THEN t.runs[i].n - 1 ELSE 0)
              + (IF i > 1 /\ t.runs[i - 1].zero \cap t.runs[i].zero # {} THEN 1 ELSE 0)])

\* len(price_data.pct_change().dropna()): the first row has no predecessor
\* and dropna() removes the rows with a NaN.
LenReturns(t) == IF NumRows(t) = 0 THEN 0 ELSE NumRows(t) - 1 - NanRows(t)

\* A row that dropna() keeps holds an infinite return: the first row of a
\* run in which a price that was 0 in the run before is positive and no
\* price is 0 again.
HasInfiniteReturn(t) ==
    \E i \in 2..Len(t.runs) :
        /\ t.runs[i - 1].zero \ t.runs[i].zero # {}
        /\ t.runs[i - 1].zero \cap t.runs[i].zero = {}

(***************************************************************************)
(* scipy.optimize.minimize(method='SLSQP') is outside the repository: a    *)
(* call returns either success with a vector inside the bounds that meets  *)
(* the equality constraint, or failure with a message and its last iterate.*)
(***************************************************************************)
NoResult == [success |-> FALSE, x |-> <<>>, message |-> ""]

SolverMessages == {"Iteration limit reached", "Positive directional derivative for linesearch"}

\* Vectors of n weights in units, each in 0..WeightScale, summing to WeightScale.
WeightVectors(n) ==
    {[i \in 1..n |-> IF i = k
                     THEN WeightScale - SumSeq([j \in 1..n |-> IF j = k THEN 0 ELSE small[j]])
                     ELSE small[i]] :
        k \in 1..n, small \in [1..n -> 0..MaxSmallWeight]}

CornerVectors(n) == {[i \in 1..n |-> IF i = k THEN WeightScale ELSE 0] : k \in 1..n}

\* initial_weights = np.array([1/num_assets] * num_assets): n entries of the
\* fraction <<1, n>>.
initial_weights(n) == [i \in 1..n |-> <<1, n>>]

\* minimize(...) by its contract: weights within the bounds that sum to 1.
\* For more than MaxSymbols assets the only result drawn is the starting point
\* of equal weights, where the solver stops when no direction improves.  It
\* is drawn only when 1/n is a whole number of units, which it is written in.
MinimizeResults(n) ==
    LET start == [i \in 1..n |->
                    CHOOSE u \in 0..WeightScale :
                        u * initial_weights(n)[i][2] = WeightScale * initial_weights(n)[i][1]]
    IN {[success |-> TRUE, x |-> w, message |-> "Optimization terminated successfully"] :
            w \in IF n > MaxSymbols THEN {start} ELSE WeightVectors(n)}
       \cup {[success |-> FALSE, x |-> w, message |-> m] :
               w \in IF n > MaxSymbols THEN {start} ELSE CornerVectors(n),
               m \in SolverMessages}

(***************************************************************************)
(* EfficientFrontier.get_efficient_frontier, lines 1940-2014.              *)
(***************************************************************************)
Failure(reason, call) ==
    [results_df |-> <<>>, metrics |-> [error |-> reason], solver |-> call]

NotInvoked ==
    [invoked |-> FALSE, raised |-> FALSE, num_assets |-> 0, assets |-> <<>>, result |-> NoResult]

\* The rows, whose weights lie in lo..hi, in descending order of weight, rows
\* of equal weight in their order: the heavier half of the range first.
RECURSIVE SortBetween(_, _, _)
SortBetween(rows, lo, hi) ==
    IF Len(rows) <= 1 \/ lo >= hi THEN rows
    ELSE LET mid == (lo + hi) \div 2
             upper(row) == row.weight > mid
             lower(row) == row.weight <= mid
         IN SortBetween(SelectSeq(rows, upper), mid + 1, hi)
                \o SortBetween(SelectSeq(rows, lower), lo, mid)

\* results_df.sort_values('weight', ascending=False)
SortDesc(rows) == SortBetween(rows, 0, WeightScale)

\* Mutant of IsSignificant: a weight of exactly 0.005 is kept.
IsSignificantInclusive(row) == row.weight >= MinWeightUnits

\* results_df[results_df['weight'] > 0.005]
IsSignificant(row) == row.weight > MinWeightUnits

\* Mutant of ResultsTable: the filtered rows are left in the order of symbols.
ResultsTableUnsorted(syms, x) ==
    SelectSeq([i \in 1..Len(syms) |-> [symbol |-> syms[i], weight |-> x[i]]], IsSignificant)

\* pd.DataFrame({'weight': optimal_weights}, index=symbols), filtered and sorted.
ResultsTable(syms, x) ==
    SortDesc(SelectSeq([i \in 1..Len(syms) |-> [symbol |-> syms[i], weight |-> x[i]]],
                       IsSignificant))

\* num_assets = len(symbols)
NumAssets(syms, prices) == Len(syms)

\* The objective multiplies the weights (num_assets entries) with mean_returns
\* (one entry per column of price_data): numpy raises on unequal lengths.
ObjectiveRaises(syms, prices) == NumAssets(syms, prices) # Len(prices.cols)

\* Mutant of TooFewAssets: one instrument is enough.
TooFewAssetsOne(prices) == IsEmpty(prices) \/ Len(prices.cols) < 1

\* if price_data.empty or len(price_data.columns) < 2
TooFewAssets(prices) == IsEmpty(prices) \/ Len(prices.cols) < MinAssets

\* Mutant of TooShort: 30 observations are refused too.
TooShortInclusive(prices) == LenReturns(prices) <= MinObservations

\* if len(returns) < 30
TooShort(prices) == LenReturns(prices) < MinObservations

\* if np.any(np.isnan(cov_matrix.values)) or np.any(np.isinf(cov_matrix.values)):
\* the covariance of returns that hold an infinite value is not finite.
InvalidCovariance(prices) == HasInfiniteReturn(prices)

\* True when the call reaches minimize and minimize returns a result.
SolverReturns(syms, prices) ==
    /\ ~TooFewAssets(prices)
    /\ ~TooShort(prices)
    /\ ~InvalidCovariance(prices)
    /\ ~ObjectiveRaises(syms, prices)

MinimizeOutcomes(syms, prices) ==
    IF SolverReturns(syms, prices) THEN MinimizeResults(NumAssets(syms, prices)) ELSE {NoResult}

\* Mutant of Conclude: a failed solve exposes the solver's last iterate.
ConcludeLastIterate(syms, call) ==
    [results_df |-> IF Len(call.result.x) = Len(syms) THEN ResultsTable(syms, call.result.x) ELSE <<>>,
     metrics |-> IF call.result.success
                 THEN [expected_return |-> Number, volatility |-> Number, sharpe_ratio |-> Number]
                 ELSE [error |-> "Optimisation échouée: " \o call.result.message],
     solver |-> call]

\* What the solver's result becomes: lines 1984-2011.
Conclude(syms, call) ==
    IF ~call.result.success
    THEN Failure("Optimisation échouée: " \o call.result.message, call)
    ELSE [results_df |-> ResultsTable(syms, call.result.x),
          metrics |-> [expected_return |-> Number, volatility |-> Number, sharpe_ratio |-> Number],
          solver |-> call]

\* str(e) of the ValueError numpy raises for weights * returns.
BroadcastError(n, m) ==
    "operands could not be broadcast together with shapes ("
        \o ToString(n) \o ",) (" \o ToString(m) \o ",) "

get_efficient_frontier(syms, prices, sol) ==
    IF TooFewAssets(prices)
    THEN Failure("Données insuffisantes", NotInvoked)
    ELSE IF TooShort(prices)
    THEN Failure("Historique trop court (moins de 30 jours)", NotInvoked)
    ELSE IF InvalidCovariance(prices)
    THEN Failure("Matrice de covariance invalide", NotInvoked)
    ELSE LET call == [invoked |-> TRUE, raised |-> ObjectiveRaises(syms, prices),
                      num_assets |-> NumAssets(syms, prices), assets |-> prices.cols,
                      result |-> sol]
         IN IF call.raised
            THEN Failure("Erreur lors du calcul: " \o BroadcastError(call.num_assets, Len(call.assets)),
                         call)
            ELSE Conclude(syms, call)

(***************************************************************************)
(* Exact rationals <<numerator, denominator>>, denominator > 0.            *)
(***************************************************************************)
Gt(a, b) == a[1] * b[2] > b[1] * a[2]

Eq(a, b) == a[1] * b[2] = b[1] * a[2]

Zero == <<0, 1>>

(***************************************************************************)
(* DiversificationAnalyzer, lines 799-848.                                 *)
(***************************************************************************)
\* A double <<numerator, denominator, ulps>> is the double ulps places above
\* (below, when negative) the double nearest to numerator/denominator.  The
\* quotients compared here are fractions of small terms: two that differ are
\* far more than a place apart, so the places decide only between equals.
FloatGt(a, q) == Gt(a, q) \/ (Eq(a, q) /\ a[3] > 0)

FloatGe(a, q) == Gt(a, q) \/ (Eq(a, q) /\ a[3] >= 0)

\* Mutant of get_concentration_level: the comparisons are inclusive.
get_concentration_level_inclusive(hhi) ==
    IF FloatGe(hhi, <<25, 100>>) THEN "Très Concentré"
    ELSE IF FloatGe(hhi, <<15, 100>>) THEN "Concentré"
    ELSE IF FloatGe(hhi, <<10, 100>>) THEN "Modérément Concentré"
    ELSE "Bien Diversifié"

\* _get_concentration_level
get_concentration_level(hhi) ==
    IF FloatGt(hhi, <<25, 100>>) THEN "Très Concentré"
    ELSE IF FloatGt(hhi, <<15, 100>>) THEN "Concentré"
    ELSE IF FloatGt(hhi, <<10, 100>>) THEN "Modérément Concentré"
    ELSE "Bien Diversifié"

\* The denominator of a table's weights is a power of two: the weights, their
\* squares and every partial sum are doubles, and the arithmetic is exact.
IsDyadic(den) == \E k \in 0..den : 2 ^ k = den

\* The places by which the float arithmetic of lines 817-823 on n weights of
\* 1/n each (the double nearest to 1/n) misses the double nearest to the real
\* value: np.sum(weights ** 2) against 1/n, 1 / hhi against n, and the sum of
\* the three largest against min(3, n)/n.  IEEE 754 doubles, summed in order
\* (np.sum adds fewer than 8 terms one after the other): five weights of 0.2
\* give 0.20000000000000004, 4.999999999999999 and 0.6000000000000001; six of
\* 1/6 give 0.16666666666666669, 5.999999999999999 and 0.5.
EqualWeightUlps ==
    [n \in 1..7 |->
        [hhi |-> IF n \in {5, 6} THEN 1 ELSE 0,
         effective_stocks |-> IF n \in {5, 6} THEN -1 ELSE 0,
         top3 |-> IF n = 5 THEN 1 ELSE 0]]

\* hhi = np.sum(weights ** 2).  A table whose denominator is not a power of
\* two holds n weights of 1/n.
Hhi(frame) ==
    <<SumSeq([i \in 1..Len(frame.weight) |-> frame.weight[i] * frame.weight[i]]),
      frame.den * frame.den,
      IF IsDyadic(frame.den) THEN 0 ELSE EqualWeightUlps[Len(frame.weight)].hhi>>

\* effective_stocks = 1 / hhi if hhi > 0 else 0.  The division is correctly
\* rounded: of an exact hhi it gives the double nearest to the quotient, and so
\* it does of the doubles nearest to 1/3 and 1/7 (3.0 and 7.0); of the double
\* above 0.2 or above 1/6 it gives the double below 5 or below 6.
EffectiveStocks(hhi) == IF FloatGt(hhi, Zero) THEN <<hhi[2], hhi[1], -hhi[3]>> ELSE Zero

\* The largest entry of a non-empty sequence, and the sequence without it.
MaxIndex(w) == CHOOSE i \in 1..Len(w) : \A j \in 1..Len(w) : w[j] <= w[i]

WithoutIndex(w, i) == SubSeq(w, 1, i - 1) \o SubSeq(w, i + 1, Len(w))

\* weights[np.argsort(weights)[-3:]].sum(): the sum of the (up to) k largest.
RECURSIVE SumLargest(_, _)
SumLargest(w, k) ==
    IF k = 0 \/ Len(w) = 0 THEN 0
    ELSE w[MaxIndex(w)] + SumLargest(WithoutIndex(w, MaxIndex(w)), k - 1)

Top3(frame) ==
    <<SumLargest(frame.weight, 3),
      frame.den,
      IF IsDyadic(frame.den) THEN 0 ELSE EqualWeightUlps[Len(frame.weight)].top3>>

\* entropy = -np.sum(weights * np.log(weights + 1e-10)); max_entropy =
\* -np.log(1/len(weights)); normalized_entropy = entropy / max_entropy if
\* max_entropy > 0 else 0.  The logarithms are not valued: the ratio is the
\* entropy over ln(n) when defined, and 0 otherwise.  zero: the ratio is
\* exactly 0, which it is when it is not defined or when every term of the
\* entropy is 0, that is when every weight is 0.
EntropyRatio(weights) ==
    [defined |-> Len(weights) > 1,
     n |-> Len(weights),
     zero |-> Len(weights) <= 1 \/ \A i \in 1..Len(weights) : weights[i] = 0]

Sentinel ==
    [hhi |-> Zero, effective_stocks |-> Zero, top3_concentration |-> Zero,
     entropy_ratio |-> [defined |-> FALSE, n |-> 0, zero |-> TRUE],
     concentration_level |-> "Non calculé"]

calculate_concentration_metrics(frame) ==
    IF ~frame.has_weight THEN Sentinel
    ELSE IF Len(frame.weight) = 0 THEN [raised |-> "ZeroDivisionError"]   \* 1/len(weights)
    ELSE [hhi |-> Hhi(frame),
          effective_stocks |-> EffectiveStocks(Hhi(frame)),
          top3_concentration |-> Top3(frame),
          entropy_ratio |-> EntropyRatio(frame.weight),
          concentration_level |-> get_concentration_level(Hhi(frame))]

(***************************************************************************)
(* The requests and the provider's answers the model draws.                *)
(***************************************************************************)
FirstTickers(n) == {Tickers[i] : i \in 1..n}

\* The fewest symbols whose weights can all be at most 0.005.
ManySymbols == WeightScale \div MinWeightUnits

\* The symbol lists drawn: every order of the first 1..MaxSymbols tickers,
\* and one list of ManySymbols symbols.
RequestLists ==
    UNION {Perms(FirstTickers(n)) : n \in 1..MaxSymbols}
    \cup {[i \in 1..ManySymbols |-> "T" \o ToString(i)]}

FullChoices == {0} \cup {f \in 0..MaxFull : f >= MaxFull - 2}

GapChoices == {0} \cup {g \in 0..MaxGap : g >= MaxGap - 1}

\* yf.download(...)['Close']: one column per requested symbol, in the order
\* requested or in alphabetical order; `full` rows with every price, then
\* gap[c] rows on which only c is missing.  zero = [col, rows, shape]: the
\* price of column col is 0 on `rows` of the full rows, the last ones
\* ("end"), the last ones and every later row that has the column ("tail"),
\* or the ones before the last full row ("mid"); rows = 0 for no 0 price.
Frame(cols, full, gap, zero) ==
    LET all == Range(cols)
        z == IF zero.rows > 0 THEN {zero.col} ELSE {}
        after == IF zero.shape = "mid" THEN 1 ELSE 0
    IN [cols |-> cols,
        runs |-> Canon(<<[present |-> all, zero |-> {}, n |-> full - zero.rows - after],
                         [present |-> all, zero |-> z, n |-> zero.rows],
                         [present |-> all, zero |-> {}, n |-> after]>>
                       \o [i \in 1..Len(cols) |->
                             [present |-> all \ {cols[i]},
                              zero |-> IF zero.shape = "tail" THEN z \ {cols[i]} ELSE {},
                              n |-> gap[cols[i]]]])]

NoZero == [col |-> "", rows |-> 0, shape |-> "end"]

\* The 0 prices drawn: none, or those of the last symbol requested, on one
\* row or on MaxNanReturns + 1 rows (MaxNanReturns returns of 0/0).
ZeroChoices(syms, full) ==
    {NoZero}
    \cup {[col |-> syms[Len(syms)], rows |-> r, shape |-> sh] :
            r \in {k \in {1, MaxNanReturns + 1} : k + 2 <= full},
            sh \in {"end", "tail", "mid"}}

\* A request of more than MaxSymbols symbols is answered in the order
\* requested, without a missing or a 0 price.
Downloads(syms) ==
    {[ok |-> FALSE, frame |-> EmptyFrame]}
    \cup IF Len(syms) > MaxSymbols
         THEN {[ok |-> TRUE,
                 frame |-> [cols |-> syms,
                            runs |-> Canon(<<[present |-> Range(syms), zero |-> {}, n |-> full]>>)]] :
                  full \in FullChoices}
         ELSE UNION {UNION {{[ok |-> TRUE, frame |-> Frame(cols, full, gap, zero)] :
                                cols \in {syms, Sorted(Range(syms))},
                                gap \in [Range(syms) -> GapChoices]} :
                            zero \in ZeroChoices(syms, full)} :
                    full \in FullChoices}

NoDownload == [ok |-> FALSE, frame |-> EmptyFrame]

(***************************************************************************)
(* State machine.                                                          *)
(***************************************************************************)
Init ==
    /\ efPhase = "idle"
    /\ symbols = <<>>
    /\ data = NoDownload
    /\ price_data = EmptyFrame
    /\ n_returns = 0
    /\ solver = NotInvoked
    /\ results_df = <<>>
    /\ metrics = [none |-> ""]
    /\ anPhase = "idle"
    /\ df = [has_weight |-> FALSE, weight |-> <<>>, den |-> 1]
    /\ concentration = [none |-> ""]
    /\ hhi_arg = <<0, 1, 0>>
    /\ level = ""
    /\ riskPhase = "idle"
    /\ risk_args = [none |-> ""]
    /\ risk_result = [none |-> ""]
    /\ pmPhase = "idle"
    /\ pm_args = [none |-> ""]
    /\ pm_result = [none |-> ""]
    /\ sessPhase = "idle"
    /\ portfolio_df = <<>>
    /\ session_error = ""
    /\ curvePhase = "idle"
    /\ curve_args = [none |-> ""]
    /\ curve_result = [none |-> ""]
    /\ dlPhase = "idle"
    /\ dl_args = [none |-> ""]
    /\ dl_result = [none |-> ""]

\* get_efficient_frontier is called; its first statement is the call of
\* get_historical_data (lines 1944, 1900-1917).
GetHistoricalData ==
    /\ efPhase = "idle"
    /\ anPhase = "idle" /\ riskPhase = "idle" /\ pmPhase = "idle" /\ RestIdle
    /\ \E syms \in RequestLists : \E resp \in Downloads(syms) :
        /\ symbols' = syms
        /\ data' = resp
        /\ price_data' = get_historical_data(resp)
    /\ efPhase' = "fetched"
    /\ UNCHANGED <<n_returns, solver, results_df, metrics, anVars, riskVars, pmVars, restVars>>

\* get_efficient_frontier from the return of get_historical_data to the call
\* of minimize (lines 1946-1971): the three checks, each an early return.
Validate ==
    /\ efPhase = "fetched"
    /\ n_returns' = LenReturns(price_data)
    /\ data' = NoDownload
    /\ LET out == get_efficient_frontier(symbols, price_data, NoResult)
       IN IF out.solver.invoked
          THEN /\ solver' = out.solver
               /\ efPhase' = "solving"
               /\ UNCHANGED <<results_df, metrics>>
          ELSE /\ solver' = out.solver
               /\ results_df' = out.results_df
               /\ metrics' = out.metrics
               /\ efPhase' = "returned"
    /\ UNCHANGED <<symbols, price_data, anVars, riskVars, pmVars, restVars>>

\* minimize runs and get_efficient_frontier returns (lines 1974-2014).
Minimize ==
    /\ efPhase = "solving"
    /\ \E sol \in MinimizeOutcomes(symbols, price_data) :
        LET out == get_efficient_frontier(symbols, price_data, sol)
        IN /\ results_df' = out.results_df
           /\ metrics' = out.metrics
           /\ solver' = out.solver
    /\ efPhase' = "returned"
    /\ UNCHANGED <<symbols, data, price_data, n_returns, anVars, riskVars, pmVars, restVars>>

NextEF == GetHistoricalData \/ Validate \/ Minimize

\* The denominator of the weights of the tables Analyze draws.
WeightDen == 2 ^ WeightBits

\* The position tables the model draws: with or without the weight column,
\* the weights multiples of 1/WeightDen.
Frames ==
    {[has_weight |-> FALSE, weight |-> <<>>, den |-> 1]}
    \cup {[has_weight |-> TRUE, weight |-> w, den |-> WeightDen] :
            w \in UNION {[1..n -> 0..MaxWeight] : n \in 0..MaxPositions}}

\* The position tables of n equal weights 1/n.
EqualFrames ==
    {[has_weight |-> TRUE, weight |-> [i \in 1..n |-> 1], den |-> n] : n \in 1..MaxEqualPositions}

\* calculate_concentration_metrics(df) is called and returns or raises.
Analyze ==
    /\ anPhase = "idle"
    /\ efPhase = "idle" /\ riskPhase = "idle" /\ pmPhase = "idle" /\ RestIdle
    /\ \E frame \in Frames :
        /\ df' = frame
        /\ concentration' = calculate_concentration_metrics(frame)
    /\ anPhase' = "returned"
    /\ UNCHANGED <<efVars, riskVars, pmVars, restVars, hhi_arg, level>>

\* calculate_concentration_metrics(df) is called with n weights of 1/n.
AnalyzeEqual ==
    /\ anPhase = "idle"
    /\ efPhase = "idle" /\ riskPhase = "idle" /\ pmPhase = "idle" /\ RestIdle
    /\ \E frame \in EqualFrames :
        /\ df' = frame
        /\ concentration' = calculate_concentration_metrics(frame)
    /\ anPhase' = "returned"
    /\ UNCHANGED <<efVars, riskVars, pmVars, restVars, hhi_arg, level>>

\* _get_concentration_level(hhi) is called with an HHI in thousandths.
Classify ==
    /\ anPhase = "idle"
    /\ efPhase = "idle" /\ riskPhase = "idle" /\ pmPhase = "idle" /\ RestIdle
    /\ \E h \in 0..MaxHhi :
        /\ hhi_arg' = <<h, 1000, 0>>
        /\ level' = get_concentration_level(<<h, 1000, 0>>)
    /\ anPhase' = "classified"
    /\ UNCHANGED <<efVars, riskVars, pmVars, restVars, df, concentration>>

NextAn == Analyze \/ AnalyzeEqual \/ Classify

(***************************************************************************)
(* RiskPerformanceAnalyzer.calculate_advanced_metrics, lines 1738-1854.    *)
(* A table is [n, has_perf, has_weight, has_symbol, index, perf, weight,   *)
(* symbol, betas]: n rows, the row labels (df.index), the 'perf' column in *)
(* percent, the 'weight' column, the 'symbol' column, and the value        *)
(* get_beta returns for each ticker.  An absent column is <<>>.            *)
(***************************************************************************)
One == <<1, 1>>

Float == <<"float">>   \* a metric value the model does not value

Abs(x) == IF x < 0 THEN -x ELSE x

RECURSIVE Gcd(_, _)
Gcd(a, b) == IF b = 0 THEN a ELSE Gcd(b, a % b)

\* A fraction in lowest terms; the denominator is positive.
Norm(q) ==
    LET g == Gcd(Abs(q[1]), q[2])
    IN IF g = 0 THEN q ELSE <<q[1] \div g, q[2] \div g>>

Mul(a, b) == Norm(<<a[1] * b[1], a[2] * b[2]>>)

Add(a, b) == Norm(<<a[1] * b[2] + b[1] * a[2], a[2] * b[2]>>)

RECURSIVE SumQ(_)
SumQ(s) == IF Len(s) = 0 THEN Zero ELSE Add(Head(s), SumQ(Tail(s)))

MetricKeys ==
    {"sharpe_ratio", "sortino_ratio", "calmar_ratio", "max_drawdown", "var_95",
     "cvar_95", "beta", "alpha", "information_ratio", "treynor_ratio",
     "portfolio_return", "portfolio_volatility"}

\* Lines 1748-1761, with 'beta': 0 in place of 'beta': 1.0.
NeutralSnapshotZeroBeta == [k \in MetricKeys |-> Zero]

\* Lines 1748-1761: every entry 0, except 'beta': 1.0.
NeutralSnapshot == [k \in MetricKeys |-> IF k = "beta" THEN One ELSE Zero]

\* Line 1747.
NeedsNeutral(t) == ~t.has_perf \/ ~t.has_weight \/ t.n = 0

\* Lines 1765-1771: the weights divided by their sum when it is positive,
\* else 1/len each; [num, den] stands for the vector num[i]/den.
NormalizedWeights(t) ==
    IF SumSeq(t.weight) > 0
    THEN [num |-> t.weight, den |-> SumSeq(t.weight)]
    ELSE [num |-> [i \in 1..t.n |-> 1], den |-> t.n]

RECURSIVE MinSeq(_)
MinSeq(s) == IF Len(s) = 1 THEN s[1]
             ELSE LET m == MinSeq(Tail(s)) IN IF s[1] < m THEN s[1] ELSE m

\* Lines 1802-1803: abs(np.sort(returns)[0]), returns = perf / 100.
MaxDrawdown(t) == IF t.n > 0 THEN Norm(<<Abs(MinSeq(t.perf)), 100>>) ELSE Zero

\* Line 1821: pd.notna(row['symbol']) and row['symbol'].strip().
Resolvable(sym) == sym \notin {"", " "}

\* Lines 1816-1828: for each row with a symbol, beta * weights[idx] with idx
\* the row's label used as a position in the weights array; an IndexError
\* is caught by the bare except and leaves 1.0; no term leaves 1.0.
PortfolioBeta(t) ==
    IF ~t.has_symbol THEN One
    ELSE LET w == NormalizedWeights(t)
             rows == {i \in 1..t.n : Resolvable(t.symbol[i])}
             term(i) == Mul(t.betas[t.symbol[i]], <<w.num[t.index[i] + 1], w.den>>)
         IN IF \E i \in rows : t.index[i] >= t.n THEN One
            ELSE IF rows = {} THEN One
            ELSE SumQ([i \in 1..t.n |-> IF i \in rows THEN term(i) ELSE Zero])

\* a - b and a * a for fractions.
Sub(a, b) == Add(a, <<-b[1], b[2]>>)

Sq(a) == Mul(a, a)

\* Line 1774: np.sum(weights * returns), returns = perf / 100.
portfolio_return(t) ==
    LET w == NormalizedWeights(t)
    IN SumQ([i \in 1..t.n |-> Norm(<<w.num[i] * t.perf[i], w.den * 100>>)])

\* Lines 1778-1779: the square of portfolio_volatility,
\* np.sum((weights**2) * (np.abs(returns - np.mean(returns))**2)).
portfolio_variance(t) ==
    LET w == NormalizedWeights(t)
        mean == Norm(<<SumSeq(t.perf), 100 * t.n>>)
    IN SumQ([i \in 1..t.n |->
                Mul(Sq(Norm(<<w.num[i], w.den>>)), Sq(Sub(Norm(<<t.perf[i], 100>>), mean)))])

\* Lines 1782 and 1786: annualized_return - risk_free_rate, with
\* period_days = 252 and risk_free_rate = 0.02.
excess_return(t) == Sub(Mul(<<252, 1>>, portfolio_return(t)), <<1, 50>>)

\* Line 1792 with returns <= 0.
non_positive_returns(t) == SelectSeq(t.perf, LAMBDA r : r <= 0)

\* Line 1792: returns[returns < 0], in percents.
negative_returns(t) == SelectSeq(t.perf, LAMBDA r : r < 0)

\* np.std(x) ** 2 for x = s / 100: the mean of the squared deviations from
\* the mean, in exact arithmetic.
StdSquared(s) ==
    LET mean == Norm(<<SumSeq(s), 100 * Len(s)>>)
    IN Mul(<<1, Len(s)>>,
           SumQ([i \in 1..Len(s) |-> Sq(Sub(Norm(<<s[i], 100>>), mean))]))

\* Lines 1793-1796: the square of downside_deviation.
downside_variance(t) ==
    IF Len(negative_returns(t)) > 0
    THEN Mul(<<252, 1>>, StdSquared(negative_returns(t)))
    ELSE Mul(<<252, 1>>, portfolio_variance(t))

\* np.mean of k copies of the float perf / 100 (lines 1778, 1794 and 1813)
\* adds them up one after the other in IEEE double arithmetic and divides by
\* k.  The result is the float perf / 100 itself (0), the float above it (1)
\* or the float below it (-1): 0.1 + 0.1 + 0.1 is 0.30000000000000004 and
\* the mean 0.10000000000000002, while 0.3 + 0.3 + 0.3 divided by 3 is 0.3.
\* One or two copies add up exactly.  The outcomes are those of double
\* arithmetic for the multiples of 10% up to 60% and up to six copies; past
\* these any of the three can occur.
MeanRoundings(perf, k) ==
    IF k <= 2 \/ perf = 0 THEN {0}
    ELSE IF perf \notin {10 * m : m \in -6..6} \/ k > 6 THEN {-1, 0, 1}
    ELSE IF perf \in {-40, -20, -10, 10, 20, 40} /\ k \in {3, 6}
    THEN {IF (perf > 0) = (k = 3) THEN 1 ELSE -1}
    ELSE {0}

\* np.mean of the floats s / 100 against the return that is their exact
\* mean: known for equal returns, any of the three outcomes otherwise.
SeqMeanRoundings(s) ==
    IF Len(s) = 0 THEN {0}
    ELSE IF \A i \in 1..Len(s) : s[i] = s[1] THEN MeanRoundings(s[1], Len(s))
    ELSE {-1, 0, 1}

\* The returns whose mean enters downside_deviation: lines 1794 and 1778.
DownsideSample(t) == IF Len(negative_returns(t)) > 0 THEN negative_returns(t) ELSE t.perf

\* Line 1798.  The ratio a/b over the square root of c/d is <<a, b, c, d>>;
\* 0 is Zero.  residue: the deviation that is 0 in exact arithmetic came
\* out of the rounded mean as a positive float, written c/d = 0/1; the
\* ratio is then the numerator over that residue.
SortinoRatio(t, residue) ==
    IF Gt(downside_variance(t), Zero)
    THEN <<excess_return(t)[1], excess_return(t)[2],
           downside_variance(t)[1], downside_variance(t)[2]>>
    ELSE IF residue
    THEN <<excess_return(t)[1], excess_return(t)[2], 0, 1>>
    ELSE Zero

RECURSIVE InsertAsc(_, _)
InsertAsc(x, s) ==
    IF Len(s) = 0 THEN <<x>>
    ELSE IF x <= Head(s) THEN <<x>> \o s
    ELSE <<Head(s)>> \o InsertAsc(x, Tail(s))

RECURSIVE SortAsc(_)
SortAsc(s) == IF Len(s) = 0 THEN <<>> ELSE InsertAsc(Head(s), SortAsc(Tail(s)))

\* Line 1809: np.percentile(returns, 5), the linear interpolation between
\* the sorted returns at positions floor and floor + 1 of 0.05 * (n - 1).
Var95(t) ==
    LET sorted == SortAsc(t.perf)
        lo == (5 * (t.n - 1)) \div 100
        frac == (5 * (t.n - 1)) % 100
    IN IF frac = 0 THEN Norm(<<sorted[lo + 1], 100>>)
       ELSE Norm(<<100 * sorted[lo + 1] + frac * (sorted[lo + 2] - sorted[lo + 1]), 10000>>)

\* Line 1812 with returns >= var_95.
returns_above_var(t) ==
    SelectSeq(t.perf, LAMBDA r : ~Gt(Var95(t), Norm(<<r, 100>>)))

\* Line 1812: returns[returns <= var_95], in percents.
returns_below_var(t) ==
    SelectSeq(t.perf, LAMBDA r : ~Gt(Norm(<<r, 100>>), Var95(t)))

\* Line 1813, as <<numerator, denominator, rounding>>: the exact mean and
\* the side on which the float returned lies (-1 below, 0 equal, 1 above).
Cvar95(t, rounding) ==
    IF Len(returns_below_var(t)) > 0
    THEN LET mean == Norm(<<SumSeq(returns_below_var(t)), 100 * Len(returns_below_var(t))>>)
         IN <<mean[1], mean[2], rounding>>
    ELSE <<Var95(t)[1], Var95(t)[2], 0>>

\* What floating point does during one call: [mean, std], the rounding of
\* the mean of line 1813 and whether a deviation that is exactly 0 comes out
\* positive, which it does when the mean of line 1794 or 1778 is not the
\* return it equals in exact arithmetic.
Roundings(t) ==
    IF NeedsNeutral(t) THEN {[mean |-> 0, std |-> FALSE]}
    ELSE {[mean |-> e, std |-> b] :
            e \in SeqMeanRoundings(returns_below_var(t)),
            b \in IF Gt(downside_variance(t), Zero) THEN {FALSE}
                  ELSE {r # 0 : r \in SeqMeanRoundings(DownsideSample(t))}}

\* Lines 1841-1854: the twelve entries of the dict.
calculate_advanced_metrics(t, fl) ==
    IF NeedsNeutral(t) THEN NeutralSnapshot
    ELSE [k \in MetricKeys |->
            CASE k = "max_drawdown" -> MaxDrawdown(t)
              [] k = "beta" -> PortfolioBeta(t)
              [] k = "sortino_ratio" -> SortinoRatio(t, fl.std)
              [] k = "var_95" -> Var95(t)
              [] k = "cvar_95" -> Cvar95(t, fl.mean)
              [] OTHER -> Float]

\* The tables the model draws for calculate_advanced_metrics: the default
\* labels 0..n-1, the labels of a table sorted the other way round, and the
\* labels left by dropping the first row of a longer table.
IndexChoices(n) ==
    {[i \in 1..n |-> i - 1], [i \in 1..n |-> n - i], [i \in 1..n |-> i]}

\* Performances drawn, in percents: the largest gain, none, a loss of 10%
\* and a larger loss.
PerfValues == {-10 * (MaxPerf + 1), -10, 0, 10 * MaxPerf}

RiskSymbols == {"", "AAPL", "GOOG"}

\* What get_beta returns for each ticker during one call.
BetaTables ==
    {[s \in {"AAPL", "GOOG"} |-> IF s = "AAPL" THEN <<3, 2>> ELSE <<1, 2>>],
     [s \in {"AAPL", "GOOG"} |-> IF s = "AAPL" THEN <<4, 5>> ELSE <<6, 5>>]}

Column(n, present, values) == IF present THEN [1..n -> values] ELSE {<<>>}

RiskWeights == {0, 50}

RiskBetas(hs) == IF hs THEN BetaTables ELSE {<<>>}

\* calculate_advanced_metrics(df) is called and returns.
AdvancedMetrics ==
    /\ riskPhase = "idle"
    /\ efPhase = "idle" /\ anPhase = "idle" /\ pmPhase = "idle" /\ RestIdle
    /\ \E n \in 0..MaxRiskRows, hp \in BOOLEAN, hw \in BOOLEAN, hs \in BOOLEAN :
        \E ix \in IndexChoices(n), pf \in Column(n, hp, PerfValues),
           wt \in Column(n, hw, RiskWeights), sy \in Column(n, hs, RiskSymbols),
           b \in RiskBetas(hs) :
            LET t == [n |-> n, has_perf |-> hp, has_weight |-> hw, has_symbol |-> hs,
                      index |-> ix, perf |-> pf, weight |-> wt, symbol |-> sy,
                      betas |-> b]
            IN /\ risk_args' = t
               /\ \E fl \in Roundings(t) : risk_result' = calculate_advanced_metrics(t, fl)
    /\ riskPhase' = "metrics"
    /\ UNCHANGED <<efVars, anVars, pmVars, restVars>>

\* calculate_advanced_metrics(df) is called with a longer table that has the
\* columns 'perf' and 'weight', no column 'symbol' and the default labels.
ReturnMetrics ==
    /\ riskPhase = "idle"
    /\ efPhase = "idle" /\ anPhase = "idle" /\ pmPhase = "idle" /\ RestIdle
    /\ \E n \in 1..MaxReturnRows :
        \E pf \in [1..n -> PerfValues], wt \in [1..n -> RiskWeights] :
            LET t == [n |-> n, has_perf |-> TRUE, has_weight |-> TRUE, has_symbol |-> FALSE,
                      index |-> [i \in 1..n |-> i - 1], perf |-> pf, weight |-> wt,
                      symbol |-> <<>>, betas |-> <<>>]
            IN /\ risk_args' = t
               /\ \E fl \in Roundings(t) : risk_result' = calculate_advanced_metrics(t, fl)
    /\ riskPhase' = "metrics"
    /\ UNCHANGED <<efVars, anVars, pmVars, restVars>>

(***************************************************************************)
(* RiskPerformanceAnalyzer.get_beta, lines 1697-1736.  A call is described *)
(* by what the provider answers: [raises, stock_rows, market_rows, common, *)
(* flat, regression, info]: whether a provider call raises, the rows of    *)
(* the two histories, the number of daily returns on dates the two series  *)
(* share, whether the market returns on those dates are all equal, the     *)
(* value of covariance / market_variance, and the 'beta' entry of          *)
(* stock.info ("absent", "None" or "value" with its beta); rounds: the     *)
(* float mean of the equal market returns is not the return itself (three  *)
(* returns of 2/3 - 1 add up to -1.0 and average to -0.3333333333333333,   *)
(* a neighbour of the return -0.33333333333333337).                        *)
(***************************************************************************)
DefaultBeta == [source |-> "default", value |-> One]

\* Lines 1714-1715: stock.info.get('beta', 1.0), and 1.0 for None.
ProviderBeta(info) ==
    IF info.state = "value" THEN [source |-> "provider", value |-> info.beta]
    ELSE DefaultBeta

\* Line 1712: len(stock_data) < 50 or len(market_data) < 50.
TooFewRows(h) == h.stock_rows < MinHistory \/ h.market_rows < MinHistory

\* Lines 1728-1730: np.var of the aligned market returns is positive; it is
\* nan for no return, 0 for one return and for equal returns that average
\* to themselves, and a positive residue for equal returns that do not.
MarketVariancePositive(h) == h.common >= 2 /\ (~h.flat \/ h.rounds)

get_beta(h) ==
    IF h.raises THEN DefaultBeta
    ELSE IF TooFewRows(h) THEN ProviderBeta(h.info)
    ELSE IF MarketVariancePositive(h) THEN [source |-> "regression", value |-> h.regression]
    ELSE DefaultBeta

HistoryRows == (MinHistory - RowSpread)..(MinHistory + RowSpread)

Min(a, b) == IF a < b THEN a ELSE b

ProviderInfos ==
    {[state |-> "absent", beta |-> Zero], [state |-> "None", beta |-> Zero],
     [state |-> "value", beta |-> <<6, 5>>]}

RegressionBetas == {<<1, 2>>, <<3, 2>>}

\* get_beta(ticker) is called and returns.
GetBeta ==
    /\ riskPhase = "idle"
    /\ efPhase = "idle" /\ anPhase = "idle" /\ pmPhase = "idle" /\ RestIdle
    /\ \E sr \in HistoryRows, mr \in HistoryRows :
        \* a series of r rows has r - 1 returns
        \E c \in 0..(Min(sr, mr) - 1), ra \in BOOLEAN, fl \in BOOLEAN,
           rg \in RegressionBetas, inf \in ProviderInfos :
          \* one or two equal returns add up exactly
          \E rd \in IF fl /\ c >= 3 THEN BOOLEAN ELSE {FALSE} :
            LET h == [raises |-> ra, stock_rows |-> sr, market_rows |-> mr,
                      common |-> c, flat |-> fl, rounds |-> rd, regression |-> rg,
                      info |-> inf]
            IN /\ risk_args' = h
               /\ risk_result' = get_beta(h)
    /\ riskPhase' = "beta"
    /\ UNCHANGED <<efVars, anVars, pmVars, restVars>>

(***************************************************************************)
(* RiskPerformanceAnalyzer.get_performance_grade, lines 1856-1870.  The    *)
(* two ratios are in tenths: 2.5 is 25.                                    *)
(***************************************************************************)
\* Lines 1859-1870, with 'or' in place of 'and' in the first test.
get_performance_grade_either(sharpe_ratio, sortino_ratio) ==
    IF sharpe_ratio >= 20 \/ sortino_ratio >= 25 THEN "A+ (Excellent)"
    ELSE IF sharpe_ratio >= 15 /\ sortino_ratio >= 20 THEN "A (Très Bon)"
    ELSE IF sharpe_ratio >= 10 /\ sortino_ratio >= 15 THEN "B+ (Bon)"
    ELSE IF sharpe_ratio >= 5 /\ sortino_ratio >= 10 THEN "B (Acceptable)"
    ELSE IF sharpe_ratio >= 0 /\ sortino_ratio >= 5 THEN "C (Médiocre)"
    ELSE "D (Insuffisant)"

get_performance_grade(sharpe_ratio, sortino_ratio) ==
    IF sharpe_ratio >= 20 /\ sortino_ratio >= 25 THEN "A+ (Excellent)"
    ELSE IF sharpe_ratio >= 15 /\ sortino_ratio >= 20 THEN "A (Très Bon)"
    ELSE IF sharpe_ratio >= 10 /\ sortino_ratio >= 15 THEN "B+ (Bon)"
    ELSE IF sharpe_ratio >= 5 /\ sortino_ratio >= 10 THEN "B (Acceptable)"
    ELSE IF sharpe_ratio >= 0 /\ sortino_ratio >= 5 THEN "C (Médiocre)"
    ELSE "D (Insuffisant)"

Ratios == (-MaxNegativeRatio)..MaxRatio

\* get_performance_grade(sharpe_ratio, sortino_ratio) is called and returns.
Grade ==
    /\ riskPhase = "idle"
    /\ efPhase = "idle" /\ anPhase = "idle" /\ pmPhase = "idle" /\ RestIdle
    /\ \E sh \in Ratios, so \in Ratios :
        /\ risk_args' = [sharpe_ratio |-> sh, sortino_ratio |-> so]
        /\ risk_result' = [grade |-> get_performance_grade(sh, so)]
    /\ riskPhase' = "graded"
    /\ UNCHANGED <<efVars, anVars, pmVars, restVars>>

NextRisk == AdvancedMetrics \/ ReturnMetrics \/ GetBeta \/ Grade

SpecRisk == Init /\ [][NextRisk]_vars

(***************************************************************************)
(* PortfolioManager.calculate_annualized_return, lines 964-995.  The       *)
(* result is [type, sign]: a float or a complex number, and the sign of    *)
(* the float.  The annualized return (1 + total_return) ** (1 / years) - 1 *)
(* and the total return it falls back to on OverflowError have the sign of *)
(* final_value - initial_value.                                            *)
(***************************************************************************)
Sign(x) == IF x > 0 THEN 1 ELSE IF x < 0 THEN -1 ELSE 0

calculate_annualized_return(initial_value, final_value, days_held) ==
    IF initial_value <= 0 \/ days_held <= 0 THEN [type |-> "float", sign |-> 0]
    ELSE IF final_value < 0 THEN [type |-> "complex", sign |-> 0]
    ELSE [type |-> "float", sign |-> Sign(final_value - initial_value)]

\* calculate_annualized_return(initial_value, final_value, days_held) is
\* called and returns.
AnnualizedReturn ==
    /\ pmPhase = "idle"
    /\ efPhase = "idle" /\ anPhase = "idle" /\ riskPhase = "idle" /\ RestIdle
    /\ \E i \in (-1)..MaxAmount, f \in (-1)..MaxAmount, d \in (-1)..MaxDays :
        /\ pm_args' = [initial_value |-> i, final_value |-> f, days_held |-> d]
        /\ pm_result' = calculate_annualized_return(i, f, d)
    /\ pmPhase' = "returned"
    /\ UNCHANGED <<efVars, anVars, riskVars, restVars>>

NextPm == AnnualizedReturn

SpecPm == Init /\ [][NextPm]_vars

(***************************************************************************)
(* The session portfolio st.session_state.portfolio_df:                    *)
(* PortfolioManager.add_stock_to_portfolio (the definition at line 1043,   *)
(* which replaces the one at line 997) and one run of main (lines          *)
(* 2397-2763): the import of the uploaded file, the add button, and the    *)
(* content shown for a portfolio that is not empty.  A position is         *)
(* [symbol, quantity, buyingPrice, lastPrice, amount].  PortfolioManager   *)
(* has no method update_portfolio_metrics: line 2546, the first statement  *)
(* of the content, raises AttributeError, so the delete button (lines      *)
(* 2736-2741) and the refresh button (2744-2763) behind it are never       *)
(* reached.                                                                *)
(***************************************************************************)
SessionTickers == {"AAPL", "GOOG"}

SessionPrices == {10, 20}

\* Lines 1046-1093: the row appended, whatever the portfolio holds.
add_stock_to_portfolio(portfolio, ticker_data, quantity, buying_price) ==
    LET purchase_price == IF buying_price = 0 THEN ticker_data.price ELSE buying_price
    IN Append(portfolio,
              [symbol |-> ticker_data.symbol,
               quantity |-> quantity,
               buyingPrice |-> purchase_price,
               lastPrice |-> ticker_data.price,
               amount |-> quantity * ticker_data.price])

\* Lines 1350-1419 for a file [has_amount, positions] with the columns
\* symbol, quantity, buyingPrice and lastPrice: 'amount' is computed only
\* when the file has no such column.
enhance_dataframe(file) ==
    [i \in 1..Len(file.positions) |->
        IF file.has_amount THEN file.positions[i]
        ELSE [file.positions[i] EXCEPT
                !.amount = file.positions[i].quantity * file.positions[i].lastPrice]]

\* The st.button calls of main; "" when none answers True.
Buttons == {"", "Ajouter au portefeuille", "Supprimer", "Actualiser les prix"}

\* One run of main from its first statement to its return or to the
\* exception that ends it.  uploaded: the portfolio is replaced by the file
\* (lines 2420-2436).  The button "Ajouter au portefeuille", pressed for a
\* validated ticker: line 2530 evaluates self.calculate_annualized_return
\* inside the function main, where no name self is bound, and raises
\* NameError.  Otherwise a portfolio that is not empty takes the run to line
\* 2546, which raises AttributeError; an empty one to the welcome screen.
main(portfolio, uploaded_file, pressed) ==
    LET imported == IF uploaded_file.uploaded THEN enhance_dataframe(uploaded_file)
                    ELSE portfolio
    IN IF pressed = "Ajouter au portefeuille"
       THEN [portfolio_df |-> imported, phase |-> "add_button", error |-> "NameError"]
       ELSE IF Len(imported) > 0
       THEN [portfolio_df |-> imported, phase |-> "content", error |-> "AttributeError"]
       ELSE [portfolio_df |-> imported, phase |-> "welcome", error |-> ""]

SessionQuiet ==
    /\ efPhase = "idle" /\ anPhase = "idle" /\ riskPhase = "idle" /\ pmPhase = "idle"
    /\ curvePhase = "idle" /\ dlPhase = "idle"

\* portfolio_manager.add_stock_to_portfolio(ticker_data, quantity,
\* buying_price, purchase_date) is called; buying_price 0 stands for None.
AddStock ==
    /\ SessionQuiet
    /\ Len(portfolio_df) < MaxRows
    /\ \E sym \in SessionTickers, price \in SessionPrices, quantity \in 1..MaxQuantity,
          buying_price \in {0} \cup SessionPrices :
        portfolio_df' = add_stock_to_portfolio(portfolio_df,
                            [symbol |-> sym, price |-> price], quantity, buying_price)
    /\ sessPhase' = "add"
    /\ session_error' = ""
    /\ UNCHANGED <<efVars, anVars, riskVars, pmVars, curveVars, dlVars>>

\* The rows of an uploaded file; amount 0 when it has no such column.
FileRows(has_amount) ==
    {[symbol |-> sym, quantity |-> quantity, buyingPrice |-> price, lastPrice |-> price,
      amount |-> amount] :
        sym \in SessionTickers, quantity \in 1..MaxQuantity, price \in SessionPrices,
        amount \in IF has_amount THEN SessionPrices ELSE {0}}

\* What the file uploader holds: nothing, or a file of no position or one,
\* with or without an 'amount' column.
Uploads ==
    {[uploaded |-> FALSE, has_amount |-> FALSE, positions |-> <<>>],
     [uploaded |-> TRUE, has_amount |-> FALSE, positions |-> <<>>]}
    \cup UNION {{[uploaded |-> TRUE, has_amount |-> has_amount, positions |-> <<row>>] :
                    row \in FileRows(has_amount)} :
                has_amount \in BOOLEAN}

\* The script main runs once, with the button that answers True when it is
\* asked.
Main ==
    /\ SessionQuiet
    /\ \E uploaded_file \in Uploads, pressed \in Buttons :
        LET out == main(portfolio_df, uploaded_file, pressed)
        IN /\ portfolio_df' = out.portfolio_df
           /\ sessPhase' = out.phase
           /\ session_error' = out.error
    /\ UNCHANGED <<efVars, anVars, riskVars, pmVars, curveVars, dlVars>>

NextSession == AddStock \/ Main

SpecSession == Init /\ [][NextSession]_vars

(***************************************************************************)
(* EfficientFrontier.download_data_with_retry, lines 1489-1526 (a method   *)
(* of the class definition at line 1453).  dl_args is [max_retries,        *)
(* has_ticker, answers]: whether the tickers list has a non-blank entry,   *)
(* and what yf.download does at each attempt: "table" (close prices),      *)
(* "empty" (an empty frame), "all_nan" (no row without a missing price) or *)
(* "error" (it raises).  dl_result is [attempt, downloads, outcome, error, *)
(* table]: the loop index, the calls of yf.download made, "" | "table" |   *)
(* "empty" | "raised", the message raised, and the attempt whose table was *)
(* returned.                                                               *)
(***************************************************************************)
Answers == {"table", "empty", "all_nan", "error"}

\* Lines 1494-1518: what one pass of the try block ends with.
AttemptOutcome(has_ticker, answer) ==
    IF ~has_ticker THEN [ok |-> FALSE, downloaded |-> FALSE, error |-> "Aucun ticker valide fourni"]
    ELSE IF answer = "error" THEN [ok |-> FALSE, downloaded |-> TRUE, error |-> "yf.download"]
    ELSE IF answer = "empty" THEN [ok |-> FALSE, downloaded |-> TRUE, error |-> "Aucune donnée téléchargée"]
    ELSE IF answer = "all_nan" THEN [ok |-> FALSE, downloaded |-> TRUE, error |-> "Données vides après nettoyage"]
    ELSE [ok |-> TRUE, downloaded |-> TRUE, error |-> ""]

\* Line 1522, never true: no attempt re-raises.
IsLastAttemptNever(attempt, max_retries) == FALSE

\* Line 1522: if attempt == max_retries - 1.
IsLastAttempt(attempt, max_retries) == attempt = max_retries - 1

DownloadQuiet ==
    /\ efPhase = "idle" /\ anPhase = "idle" /\ riskPhase = "idle" /\ pmPhase = "idle"
    /\ sessPhase = "idle" /\ curvePhase = "idle"

\* download_data_with_retry(tickers, start_date, end_date, max_retries) is
\* called: the loop is entered with attempt = 0.
StartDownload ==
    /\ dlPhase = "idle"
    /\ DownloadQuiet
    /\ \E m \in 0..MaxRetries, ht \in BOOLEAN, ans \in [1..MaxRetries -> Answers] :
        dl_args' = [max_retries |-> m, has_ticker |-> ht, answers |-> ans]
    /\ dl_result' = [attempt |-> 0, downloads |-> 0, outcome |-> "", error |-> "", table |-> 0]
    /\ dlPhase' = "trying"
    /\ UNCHANGED <<efVars, anVars, riskVars, pmVars, sessVars, curveVars>>

\* One pass of the loop body, lines 1493-1523.
Attempt ==
    /\ dlPhase = "trying"
    /\ dl_result.attempt < dl_args.max_retries
    /\ LET k == dl_result.attempt
           out == AttemptOutcome(dl_args.has_ticker, dl_args.answers[k + 1])
           calls == dl_result.downloads + (IF out.downloaded THEN 1 ELSE 0)
       IN IF out.ok
          THEN /\ dl_result' = [attempt |-> k + 1, downloads |-> calls, outcome |-> "table",
                                error |-> "", table |-> k + 1]
               /\ dlPhase' = "returned"
          ELSE IF IsLastAttempt(k, dl_args.max_retries)
          THEN /\ dl_result' = [attempt |-> k + 1, downloads |-> calls, outcome |-> "raised",
                                error |-> out.error, table |-> 0]
               /\ dlPhase' = "raised"
          ELSE /\ dl_result' = [dl_result EXCEPT !.attempt = k + 1, !.downloads = calls]
               /\ dlPhase' = "trying"
    /\ UNCHANGED <<dl_args, efVars, anVars, riskVars, pmVars, sessVars, curveVars>>

\* Line 1526: the loop is over, return pd.DataFrame().
ReturnEmpty ==
    /\ dlPhase = "trying"
    /\ dl_result.attempt >= dl_args.max_retries
    /\ dl_result' = [dl_result EXCEPT !.outcome = "empty"]
    /\ dlPhase' = "returned"
    /\ UNCHANGED <<dl_args, efVars, anVars, riskVars, pmVars, sessVars, curveVars>>

NextDl == StartDownload \/ Attempt \/ ReturnEmpty

SpecDl == Init /\ [][NextDl]_vars

(***************************************************************************)
(* EfficientFrontier.negative_sharpe_ratio and                             *)
(* EfficientFrontier.generate_efficient_frontier_curve of the class        *)
(* definition at line 1896, over two instruments.  A weight vector is      *)
(* <<k1, k2>> with k1 + k2 = CurveDen, in units of 1/CurveDen; annualised  *)
(* mean returns are whole percents; the covariance matrix is               *)
(* <<v1, c, v2>> (variances and covariance) in units of 1/10000.  On that  *)
(* scale the portfolio return is PortfolioReturn / (100 * CurveDen), the   *)
(* volatility sqrt(PortfolioVariance) / (100 * CurveDen) and the Sharpe    *)
(* ratio (PortfolioReturn - 2 * CurveDen) / sqrt(PortfolioVariance).       *)
(***************************************************************************)
RandomWeights == {<<k, CurveDen - k>> : k \in 0..CurveDen}

MeanReturns == {4, 12}

CovMatrices ==
    {cov \in {0, 1, 4} \X {-1, 0, 1} \X {0, 1, 4} : cov[2] * cov[2] <= cov[1] * cov[3]}

\* Line 1922: np.sum(weights * returns).
PortfolioReturn(w, mu) == w[1] * mu[1] + w[2] * mu[2]

\* Line 1923: np.dot(weights.T, np.dot(cov_matrix, weights)).
PortfolioVariance(w, cov) ==
    w[1] * w[1] * cov[1] + 2 * w[1] * w[2] * cov[2] + w[2] * w[2] * cov[3]

\* The sign of n / sqrt(V), taken as 0 when V = 0.
RatioSign(n, V) == IF V = 0 THEN 0 ELSE Sign(n)

\* n1 / sqrt(V1) >= n2 / sqrt(V2), each ratio taken as 0 when its V is 0.
RatioGeq(n1, V1, n2, V2) ==
    IF RatioSign(n1, V1) # RatioSign(n2, V2) THEN RatioSign(n1, V1) > RatioSign(n2, V2)
    ELSE IF RatioSign(n1, V1) = 0 THEN TRUE
    ELSE IF RatioSign(n1, V1) > 0 THEN n1 * n1 * V2 >= n2 * n2 * V1
    ELSE n1 * n1 * V2 <= n2 * n2 * V1

\* Lines 1929-1937.  The value returned is [inf, n, V]: -infinity when inf
\* is -1, +infinity when inf is 1, and n / sqrt(V) when inf is 0.
negative_sharpe_ratio(weights, returns, cov_matrix) ==
    IF PortfolioVariance(weights, cov_matrix) = 0
    THEN [inf |-> -1, n |-> 0, V |-> 1]
    ELSE [inf |-> 0, n |-> -(PortfolioReturn(weights, returns) - 2 * CurveDen),
          V |-> PortfolioVariance(weights, cov_matrix)]

\* Lines 2040-2048: the record appended for one random portfolio, as
\* <<return, variance>>.
Portfolio(w, mu, cov) == <<PortfolioReturn(w, mu), PortfolioVariance(w, cov)>>

\* Line 2047 and the key of line 2051: the Sharpe ratio of a is at least b's.
SharpeGeq(a, b) == RatioGeq(a[1] - 2 * CurveDen, a[2], b[1] - 2 * CurveDen, b[2])

\* Lines 2051-2052: a list sorted by Sharpe ratio, best first.
SortedBySharpe(r) == \A i \in 1..(Len(r) - 1) : SharpeGeq(r[i], r[i + 1])

\* Lines 2036-2052: what a call can keep.  The 10 * num_portfolios draws of
\* np.random.random are any weight vectors, so the num_portfolios best are
\* any list of that length sorted by Sharpe ratio.
Sampled(mu, cov, num_portfolios, r) ==
    /\ Len(r) = num_portfolios
    /\ SortedBySharpe(r)
    /\ \A i \in 1..Len(r) : \E w \in RandomWeights : r[i] = Portfolio(w, mu, cov)

CurveQuiet ==
    /\ efPhase = "idle" /\ anPhase = "idle" /\ riskPhase = "idle" /\ pmPhase = "idle"
    /\ sessPhase = "idle" /\ dlPhase = "idle"

\* negative_sharpe_ratio(weights, returns, cov_matrix) is called and returns.
Objective ==
    /\ curvePhase = "idle"
    /\ CurveQuiet
    /\ \E w \in RandomWeights, mu \in MeanReturns \X MeanReturns, cov \in CovMatrices :
        /\ curve_args' = [weights |-> w, returns |-> mu, cov_matrix |-> cov]
        /\ curve_result' = negative_sharpe_ratio(w, mu, cov)
    /\ curvePhase' = "objective"
    /\ UNCHANGED <<efVars, anVars, riskVars, pmVars, sessVars, dlVars>>

\* generate_efficient_frontier_curve(symbols, start_date, end_date,
\* num_portfolios) is called and returns; curve_result is the list of the
\* lists returned, one per call.
GenerateCurve ==
    /\ curvePhase = "idle"
    /\ CurveQuiet
    /\ \E mu \in MeanReturns \X MeanReturns, cov \in CovMatrices,
          n \in 1..MaxPortfolios, empty \in BOOLEAN :
        /\ curve_args' = [returns |-> mu, cov_matrix |-> cov, num_portfolios |-> n,
                          empty |-> empty]
        /\ IF empty
           THEN curve_result' = << <<>> >>
           ELSE \E r \in [1..n -> {Portfolio(w, mu, cov) : w \in RandomWeights}] :
                   /\ Sampled(mu, cov, n, r)
                   /\ curve_result' = <<r>>
    /\ curvePhase' = "curve"
    /\ UNCHANGED <<efVars, anVars, riskVars, pmVars, sessVars, dlVars>>

\* The same call is made again with the same arguments.
GenerateCurveAgain ==
    /\ curvePhase = "curve"
    /\ IF curve_args.empty
       THEN curve_result' = Append(curve_result, <<>>)
       ELSE \E r \in [1..curve_args.num_portfolios ->
                        {Portfolio(w, curve_args.returns, curve_args.cov_matrix) :
                            w \in RandomWeights}] :
               /\ Sampled(curve_args.returns, curve_args.cov_matrix,
                          curve_args.num_portfolios, r)
               /\ curve_result' = Append(curve_result, r)
    /\ curvePhase' = "curve_again"
    /\ UNCHANGED <<curve_args, efVars, anVars, riskVars, pmVars, sessVars, dlVars>>

NextCurve == Objective \/ GenerateCurve \/ GenerateCurveAgain

SpecCurve == Init /\ [][NextCurve]_vars

SpecEF == Init /\ [][NextEF]_vars

SpecAn == Init /\ [][NextAn]_vars

Next == NextEF \/ NextAn \/ NextRisk \/ NextPm \/ NextSession \/ NextDl \/ NextCurve

Spec == Init /\ [][Next]_vars

(***************************************************************************)
(* Outcomes of get_efficient_frontier.                                     *)
(***************************************************************************)
Returned == efPhase = "returned"

SuccessKeys == {"expected_return", "volatility", "sharpe_ratio"}

\* The call returned the three metrics and no 'error'.
HasMetrics == Returned /\ DOMAIN metrics = SuccessKeys

IsSuccess == HasMetrics /\ Len(results_df) > 0

IsFailure == Returned /\ DOMAIN metrics = {"error"} /\ metrics.error # "" /\ Len(results_df) = 0

TableSum == SumSeq([i \in 1..Len(results_df) |-> results_df[i].weight])

\* The weight the solver gave the i-th symbol of the request.
SolverWeight(sym) ==
    LET i == CHOOSE j \in 1..Len(symbols) : symbols[j] = sym
    IN solver.result.x[i]

\* C1: every call of get_efficient_frontier returns, with exactly one of two
\* outcomes: a non-empty weights table and the three metrics without an
\* 'error' key, or an empty table and a dict with an 'error' reason; and the
\* weights of a returned table are those of a successful solve, never defaults.
C1_TwoOutcomes ==
    /\ efPhase = "fetched" => ENABLED Validate
    /\ efPhase = "solving" => ENABLED Minimize
    /\ Returned =>
        /\ IsSuccess \/ IsFailure
        /\ ~(IsSuccess /\ IsFailure)
        /\ Len(results_df) > 0 =>
            /\ solver.invoked /\ ~solver.raised /\ solver.result.success
            /\ \A i \in 1..Len(results_df) : results_df[i].weight = SolverWeight(results_df[i].symbol)

\* C2 as stated: on success the weights of the returned table are within
\* [0,1] and sum to 1.
C2_Original ==
    HasMetrics =>
        /\ \A i \in 1..Len(results_df) : results_df[i].weight \in 0..WeightScale
        /\ TableSum = WeightScale

\* The total weight the solver gave to entries the table leaves out.
FilteredOut ==
    SumSeq([i \in 1..Len(symbols) |->
              IF solver.result.x[i] > MinWeightUnits THEN 0 ELSE solver.result.x[i]])

\* C2 amended: on success the solver's vector is within [0,1] and sums to 1;
\* the weights of the returned table are within [0,1] and sum to 1 minus the
\* total of the weights not above 0.5%, which the table leaves out.
C2_TableSum ==
    HasMetrics =>
        /\ SumSeq(solver.result.x) = WeightScale
        /\ \A i \in 1..Len(results_df) : results_df[i].weight \in 0..WeightScale
        /\ TableSum = WeightScale - FilteredOut
        /\ TableSum <= WeightScale

\* C2 witness: a successful call whose table leaves a positive weight out.
C2_Witness == IsSuccess /\ FilteredOut > 0 /\ TableSum < WeightScale

\* C3: with fewer than 2 instruments with valid price data the call fails with
\* the insufficient-data reason, no weights table, and the solver is not
\* invoked; in particular a request of a single symbol fails.
C3_FewerThanTwo ==
    Returned =>
        /\ Len(price_data.cols) < 2 =>
            IsFailure /\ metrics.error = "Données insuffisantes" /\ ~solver.invoked
        /\ Len(symbols) = 1 => IsFailure /\ ~solver.invoked

\* C3 witness: one symbol was requested, its prices came, and the call returned.
C3_Witness == Returned /\ Len(symbols) = 1 /\ Len(price_data.cols) = 1 /\ NumRows(price_data) > MinObservations

\* C4: with fewer than 30 observations the call fails with an
\* insufficient-data reason and the solver is not invoked; with exactly 30
\* observations of at least 2 instruments the check passes.
C4_ThirtyObservations ==
    Returned =>
        /\ n_returns < 30 =>
            /\ IsFailure /\ ~solver.invoked
            /\ metrics.error \in {"Données insuffisantes", "Historique trop court (moins de 30 jours)"}
        /\ (n_returns < 30 /\ Len(price_data.cols) >= 2 /\ NumRows(price_data) > 0) =>
            metrics.error = "Historique trop court (moins de 30 jours)"
        /\ (n_returns = 30 /\ Len(price_data.cols) >= 2) =>
            /\ ~(IsFailure /\ metrics.error = "Historique trop court (moins de 30 jours)")
            /\ ~HasInfiniteReturn(price_data) => solver.invoked

\* C4 witness: two instruments with 29 observations.
C4_Witness == Returned /\ n_returns = 29 /\ Len(price_data.cols) >= 2

\* Missing observations of a column of the provider's table.
Missing(t, c) == NumRows(t) - Count(t, c)

\* C5 as stated: an instrument is dropped if and only if it misses more than
\* 50% of the observations, and then the dates with a missing value of a
\* remaining instrument are dropped.
C5_FiftyPercent ==
    (efPhase = "fetched" /\ data.ok) =>
        /\ \A c \in Range(data.frame.cols) :
            (c \notin Range(price_data.cols)) <=> (2 * Missing(data.frame, c) > NumRows(data.frame))
        /\ NumRows(price_data) =
            SumSeq([i \in 1..Len(data.frame.runs) |->
                      IF Range(price_data.cols) \subseteq data.frame.runs[i].present
                      THEN data.frame.runs[i].n ELSE 0])

\* C6 as stated: when filtering drops requested instruments and at least 2
\* remain with at least 30 observations, the solver runs over exactly the
\* remaining instruments and the call does not fail because of the dropped ones.
C6_RemainingInstruments ==
    (/\ Returned
     /\ Len(price_data.cols) < Len(symbols)
     /\ Len(price_data.cols) >= 2
     /\ n_returns >= 30
     /\ ~HasInfiniteReturn(price_data)) =>
        /\ solver.invoked
        /\ solver.num_assets = Len(price_data.cols)
        /\ ~solver.raised

\* C7: when the solver reports non-convergence the call returns a failure
\* that carries the solver's message, and no weights.
C7_NonConvergence ==
    (Returned /\ solver.invoked /\ ~solver.raised /\ ~solver.result.success) =>
        /\ Len(results_df) = 0
        /\ metrics = [error |-> "Optimisation échouée: " \o solver.result.message]

\* C7 witness: the solver hit its iteration limit and left an iterate behind.
C7_Witness ==
    /\ Returned /\ solver.invoked /\ ~solver.result.success
    /\ solver.result.message = "Iteration limit reached"
    /\ Len(solver.result.x) = Len(symbols)

(***************************************************************************)
(* Concentration metrics.                                                  *)
(***************************************************************************)
Computed == anPhase = "returned" /\ df.has_weight /\ Len(df.weight) > 0

WeightSum == SumSeq(df.weight)

SquareSum == SumSeq([i \in 1..Len(df.weight) |-> df.weight[i] * df.weight[i]])

NumPositive == Cardinality({i \in 1..Len(df.weight) : df.weight[i] > 0})

PositiveEqual == \A i, j \in 1..Len(df.weight) : (df.weight[i] > 0 /\ df.weight[j] > 0) => df.weight[i] = df.weight[j]

\* The label the thresholds give an HHI of h/d.
LabelOf(h, d) ==
    IF 4 * h > d THEN "Très Concentré"
    ELSE IF 20 * h > 3 * d THEN "Concentré"
    ELSE IF 10 * h > d THEN "Modérément Concentré"
    ELSE "Bien Diversifié"

\* C8: the concentration label is a function of HHI with strict comparisons:
\* above 0.25 very concentrated, above 0.15 concentrated, above 0.10 moderately
\* concentrated, else well diversified; 0.25, 0.15 and 0.10 themselves fall in
\* the lower class.
C8_Labels ==
    /\ anPhase = "classified" =>
        /\ level = LabelOf(hhi_arg[1], hhi_arg[2])
        /\ hhi_arg = <<250, 1000, 0>> => level = "Concentré"
        /\ hhi_arg = <<150, 1000, 0>> => level = "Modérément Concentré"
        /\ hhi_arg = <<100, 1000, 0>> => level = "Bien Diversifié"
    /\ Computed =>
        concentration.concentration_level = LabelOf(SquareSum, df.den * df.den)

\* C8 witness: a call with an HHI of exactly 0.25.
C8_Witness == anPhase = "classified" /\ hhi_arg = <<250, 1000, 0>> /\ level = "Concentré"

\* C9: for weights that sum to 1 with n > 0 positive entries, effective_stocks
\* is 1/HHI, lies between 1 and n, and equals n exactly when all positive
\* weights are equal.
C9_EffectiveStocks ==
    (Computed /\ WeightSum = df.den /\ NumPositive > 0) =>
        LET eff == concentration.effective_stocks
            n == <<NumPositive, 1>>
        IN /\ eff[2] > 0
           /\ eff[1] * SquareSum = eff[2] * df.den * df.den
           /\ FloatGe(eff, <<1, 1>>)
           /\ ~FloatGt(eff, n)
           /\ (Eq(eff, n) /\ eff[3] = 0) <=> PositiveEqual

\* C10 as stated: the reported HHI is that of the normalized weights, the sum
\* of (w_i / S)^2 for the sum S > 0 of the weights.
C10_Normalized ==
    (Computed /\ WeightSum > 0) =>
        Eq(concentration.hhi, <<SquareSum, WeightSum * WeightSum>>)

\* Every weight of the table is 0.
AllZero == \A i \in 1..Len(df.weight) : df.weight[i] = 0

\* C11 as stated: without the weight column and with weights that are all 0
\* the result is the sentinel, labelled 'Non calculé'; weights that are all 0
\* are never labelled as diversified.
C11_Sentinel ==
    (anPhase = "returned" /\ (~df.has_weight \/ (Len(df.weight) > 0 /\ AllZero))) =>
        /\ concentration.concentration_level = "Non calculé"
        /\ concentration.concentration_level # "Bien Diversifié"
        /\ Eq(concentration.hhi, Zero)
        /\ Eq(concentration.effective_stocks, Zero)
        /\ Eq(concentration.top3_concentration, Zero)

\* C12 as stated: the entropy is divided by ln(n) for the number n of strictly
\* positive weights, and the ratio is exactly 0 whenever n <= 1.
C12_PositiveCount ==
    Computed =>
        /\ NumPositive <= 1 => concentration.entropy_ratio.zero
        /\ NumPositive > 1 =>
            /\ concentration.entropy_ratio.defined
            /\ concentration.entropy_ratio.n = NumPositive

\* C13 as stated: the analyzers return a dict for every position table, the
\* table with the columns and no rows included: none of them raises.
C13_NeverRaise ==
    /\ anPhase = "returned" => "raised" \notin DOMAIN concentration
    /\ riskPhase = "metrics" => "raised" \notin DOMAIN risk_result


(***************************************************************************)
(* Outcomes of calculate_advanced_metrics.                                 *)
(***************************************************************************)
MetricsReturned == riskPhase = "metrics"

NeutralInput == MetricsReturned /\ NeedsNeutral(risk_args)

MetricsComputed == MetricsReturned /\ ~NeedsNeutral(risk_args)

\* C14 as stated: with 'perf' or 'weight' missing, or no rows, every one of
\* the twelve metrics of the returned snapshot is 0, beta included.
C14_Original ==
    NeutralInput => \A k \in MetricKeys : Eq(risk_result[k], Zero)

\* C14 amended: with 'perf' or 'weight' missing, or no rows, the call returns
\* the neutral snapshot of the twelve metrics, in which beta is 1.0 and every
\* other metric is 0.
C14_NeutralSnapshot ==
    NeutralInput =>
        /\ DOMAIN risk_result = MetricKeys
        /\ Eq(risk_result.beta, One)
        /\ \A k \in MetricKeys \ {"beta"} : Eq(risk_result[k], Zero)

\* C14 witness: a table with both columns and a symbol column but no rows.
C14_Witness ==
    /\ MetricsReturned
    /\ risk_args.has_perf /\ risk_args.has_weight /\ risk_args.has_symbol
    /\ risk_args.n = 0
    /\ Eq(risk_result.beta, One) /\ Eq(risk_result.max_drawdown, Zero)

\* The path of the specification: C_t the running product of (1 + r_t), M_t
\* its running maximum, and the magnitude (M_t - C_t) / M_t of the drawdown.
RECURSIVE CumProd(_, _)
CumProd(perf, t) ==
    IF t = 0 THEN One ELSE Mul(CumProd(perf, t - 1), <<100 + perf[t], 100>>)

RECURSIVE RunningMax(_, _)
RunningMax(perf, t) ==
    IF t = 1 THEN CumProd(perf, 1)
    ELSE LET m == RunningMax(perf, t - 1)
             c == CumProd(perf, t)
         IN IF Gt(c, m) THEN c ELSE m

DrawdownAt(perf, t) ==
    LET c == CumProd(perf, t)
        m == RunningMax(perf, t)
    IN Norm(<<m[1] * c[2] - c[1] * m[2], m[1] * c[2]>>)

PathDrawdown(perf) ==
    LET all == {DrawdownAt(perf, t) : t \in 1..Len(perf)}
    IN IF all = {} THEN Zero
       ELSE CHOOSE d \in all : \A e \in all : ~Gt(e, d)

\* C15 as stated: the max_drawdown of a computed snapshot is the largest
\* drawdown of the cumulative-return path of the returns.
C15_PathBased ==
    MetricsComputed => Eq(risk_result.max_drawdown, PathDrawdown(risk_args.perf))

\* The sum over the positions with a symbol of the position's own normalized
\* weight times the beta of the position's own instrument.
WeightedBeta(t) ==
    LET w == NormalizedWeights(t)
    IN SumQ([i \in 1..t.n |->
               IF Resolvable(t.symbol[i])
               THEN Mul(t.betas[t.symbol[i]], <<w.num[i], w.den>>)
               ELSE Zero])

\* C17 as stated: whatever the row labels, and also when some rows have no
\* symbol, the beta of a computed snapshot of a table with at least one symbol
\* is the sum of normalized weight times instrument beta, position by position.
C17_WeightedBeta ==
    (/\ MetricsComputed
     /\ risk_args.has_symbol
     /\ \E i \in 1..risk_args.n : Resolvable(risk_args.symbol[i])) =>
        Eq(risk_result.beta, WeightedBeta(risk_args))

\* C19 as stated: a computed snapshot, whose volatility is always the
\* diagonal-only estimate, carries an entry besides the twelve metrics that
\* flags the volatility as an approximation.
C19_ApproximationFlag ==
    MetricsComputed => DOMAIN risk_result \ MetricKeys # {}


\* C16 as stated: get_beta returns the regression beta only with at least 50
\* return observations on common dates; with fewer (and no provider error) it
\* returns the provider's beta, or 1.0 when the provider has none.
C16_AlignedObservations ==
    (riskPhase = "beta" /\ ~risk_args.raises) =>
        /\ risk_result.source = "regression" => risk_args.common >= MinHistory
        /\ risk_args.common < MinHistory => risk_result = ProviderBeta(risk_args.info)


\* The table of the grades, best first, thresholds in tenths.
GradeTable ==
    <<[sharpe |-> 20, sortino |-> 25, grade |-> "A+ (Excellent)"],
      [sharpe |-> 15, sortino |-> 20, grade |-> "A (Très Bon)"],
      [sharpe |-> 10, sortino |-> 15, grade |-> "B+ (Bon)"],
      [sharpe |-> 5, sortino |-> 10, grade |-> "B (Acceptable)"],
      [sharpe |-> 0, sortino |-> 5, grade |-> "C (Médiocre)"]>>

Matches(sh, so) ==
    {i \in 1..Len(GradeTable) : sh >= GradeTable[i].sharpe /\ so >= GradeTable[i].sortino}

FirstMatch(sh, so) ==
    IF Matches(sh, so) = {} THEN "D (Insuffisant)"
    ELSE GradeTable[CHOOSE i \in Matches(sh, so) : \A j \in Matches(sh, so) : i <= j].grade

\* 1 for the best grade, 6 for D.
GradeRank(g) ==
    IF \E i \in 1..Len(GradeTable) : GradeTable[i].grade = g
    THEN CHOOSE i \in 1..Len(GradeTable) : GradeTable[i].grade = g
    ELSE Len(GradeTable) + 1

\* C18: the grade returned is that of the first row of the table whose two
\* inclusive thresholds are both met, D when there is none; and a larger
\* Sharpe with the same Sortino, or a larger Sortino with the same Sharpe, is
\* never graded worse.
C18_FirstMatch ==
    riskPhase = "graded" =>
        LET sh == risk_args.sharpe_ratio
            so == risk_args.sortino_ratio
        IN /\ risk_result.grade = FirstMatch(sh, so)
           /\ \A more \in Ratios :
                /\ more >= sh =>
                    GradeRank(get_performance_grade(more, so)) <= GradeRank(risk_result.grade)
                /\ more >= so =>
                    GradeRank(get_performance_grade(sh, more)) <= GradeRank(risk_result.grade)

\* C18 witness: the first row fails on Sortino alone and the second row, met
\* exactly on Sortino, gives the grade.
C18_Witness ==
    /\ riskPhase = "graded"
    /\ risk_args.sharpe_ratio >= 20 /\ risk_args.sortino_ratio = 20
    /\ risk_result.grade = "A (Très Bon)"


\* C20 as stated: calculate_annualized_return returns 0 whenever one of
\* initial_value, final_value and days_held is zero or negative.
C20_NonPositiveInputs ==
    (/\ pmPhase = "returned"
     /\ \/ pm_args.initial_value <= 0
        \/ pm_args.final_value <= 0
        \/ pm_args.days_held <= 0) =>
        pm_result = [type |-> "float", sign |-> 0]


(***************************************************************************)
(* The session portfolio.                                                  *)
(***************************************************************************)
\* C21 as stated: whatever was added, refreshed or deleted, every position
\* of the session portfolio has amount = quantity x lastPrice.
C21_AmountDerived ==
    \A i \in 1..Len(portfolio_df) :
        portfolio_df[i].amount = portfolio_df[i].quantity * portfolio_df[i].lastPrice

\* C22 as stated: after any sequence of adds, no two positions of the session
\* portfolio have the same symbol.
C22_UniqueSymbols ==
    \A i, j \in 1..Len(portfolio_df) :
        portfolio_df[i].symbol = portfolio_df[j].symbol => i = j

\* C23 as stated: the add-button handler of main finishes without an
\* exception and leaves exactly one more position, the positions held before
\* unchanged.
C23_AddCompletes ==
    [][sessPhase' = "add_button" =>
        /\ session_error' = ""
        /\ Len(portfolio_df') = Len(portfolio_df) + 1
        /\ SubSeq(portfolio_df', 1, Len(portfolio_df)) = portfolio_df]_vars


(***************************************************************************)
(* The weights table of get_efficient_frontier.                            *)
(***************************************************************************)
SortedDescending ==
    \A i, j \in 1..Len(results_df) : i < j => results_df[i].weight >= results_df[j].weight

\* C25 as stated: on success the table lists exactly the instruments whose
\* weight is at least 0.5%, a weight of exactly 0.005 included, sorted by
\* weight in descending order.
C25_Original ==
    HasMetrics =>
        /\ {results_df[i].symbol : i \in 1..Len(results_df)} =
              {symbols[i] : i \in {j \in 1..Len(symbols) : solver.result.x[j] >= MinWeightUnits}}
        /\ SortedDescending

\* C25 amended: on success the table lists exactly the instruments whose
\* weight is strictly greater than 0.5% (a weight of exactly 0.005 is left
\* out), sorted by weight in descending order.
C25_AboveThreshold ==
    HasMetrics =>
        /\ {results_df[i].symbol : i \in 1..Len(results_df)} =
              {symbols[i] : i \in {j \in 1..Len(symbols) : solver.result.x[j] > MinWeightUnits}}
        /\ SortedDescending

\* C25 witness: a successful call with a weight of exactly 0.005, left out,
\* and two rows that the sort had to exchange.
C25_Witness ==
    /\ IsSuccess
    /\ \E i \in 1..Len(symbols) : solver.result.x[i] = MinWeightUnits
    /\ Len(results_df) = 2
    /\ \E i, j \in 1..Len(symbols) :
        /\ i < j
        /\ solver.result.x[j] > solver.result.x[i]
        /\ solver.result.x[i] > MinWeightUnits

\* C28 as stated: on success the weight listed under a symbol is the weight
\* the solver gave to the column of that symbol in the price table, whatever
\* the order of the symbols list.
C28_OwnSeries ==
    IsSuccess =>
        \A i \in 1..Len(results_df) :
            \E j \in 1..Len(price_data.cols) :
                /\ price_data.cols[j] = results_df[i].symbol
                /\ results_df[i].weight = solver.result.x[j]


(***************************************************************************)
(* download_data_with_retry.                                               *)
(***************************************************************************)
\* The attempts that would yield a table, by their 1-based number.
Yielding ==
    {k \in 1..dl_args.max_retries :
        AttemptOutcome(dl_args.has_ticker, dl_args.answers[k]).ok}

\* C30: the call ends after at most max_retries attempts; it returns the
\* table of the first attempt that yields data, making no attempt after it;
\* when every attempt fails it raises the error of the last one; it returns
\* an empty table only when max_retries is 0.
C30_Retry ==
    /\ dlPhase = "trying" => (ENABLED Attempt \/ ENABLED ReturnEmpty)
    /\ dlPhase # "idle" =>
        /\ dl_result.attempt <= dl_args.max_retries
        /\ dl_result.downloads <= dl_result.attempt
    /\ (dlPhase = "returned" /\ dl_result.outcome = "table") =>
        /\ dl_result.table \in Yielding
        /\ \A k \in Yielding : dl_result.table <= k
        /\ dl_result.attempt = dl_result.table
    /\ dlPhase = "raised" =>
        /\ Yielding = {}
        /\ dl_args.max_retries > 0
        /\ dl_result.attempt = dl_args.max_retries
        /\ dl_result.error =
              AttemptOutcome(dl_args.has_ticker, dl_args.answers[dl_args.max_retries]).error
    /\ (dlPhase = "returned" /\ dl_result.outcome = "empty") => dl_args.max_retries = 0
    /\ (dlPhase \in {"returned", "raised"} /\ Yielding = {} /\ dl_args.max_retries > 0) =>
        dlPhase = "raised"

\* C30 witness: every one of three attempts failed, the last with an empty
\* download after an error, and the call raised the error of the last.
C30_Witness ==
    /\ dlPhase = "raised"
    /\ dl_args.max_retries = 3
    /\ dl_args.has_ticker
    /\ dl_args.answers[1] = "error" /\ dl_args.answers[3] = "empty"
    /\ dl_result.downloads = 3
    /\ dl_result.error = "Aucune donnée téléchargée"


(***************************************************************************)
(* The frontier curve and the optimizer's objective.                       *)
(***************************************************************************)
\* The return of point p is one of the num_portfolios evenly spaced targets
\* from the smallest to the largest mean return.
OnGrid(p, mu, num_portfolios) ==
    LET lo == Min(mu[1], mu[2])
        hi == IF mu[1] > mu[2] THEN mu[1] ELSE mu[2]
        steps == IF num_portfolios > 1 THEN num_portfolios - 1 ELSE 1
    IN \E j \in 0..(num_portfolios - 1) :
          p[1] * steps = CurveDen * (lo * steps + j * (hi - lo))

\* No fully invested long-only portfolio with the return of point p has a
\* smaller variance, the weights x / CurveDen and 1 - x / CurveDen ranging
\* over the reals of [0, 1].  With different mean returns the return fixes
\* x = n / d; with equal ones the variance a x^2 + ... is smallest at 0, at
\* CurveDen or, inside, at x = CurveDen (cov[3] - cov[2]) / a.
MinimumVariance(p, mu, cov) ==
    LET a == cov[1] - 2 * cov[2] + cov[3]
        d == mu[1] - mu[2]
        n == p[1] - CurveDen * mu[2]
        m == CurveDen * d - n
    IN IF d # 0
       THEN (n * d >= 0 /\ m * d >= 0) =>
               p[2] * d * d <= n * n * cov[1] + 2 * n * m * cov[2] + m * m * cov[3]
       ELSE p[1] = CurveDen * mu[1] =>
               /\ p[2] <= CurveDen * CurveDen * cov[3]
               /\ p[2] <= CurveDen * CurveDen * cov[1]
               /\ (a > 0 /\ cov[3] > cov[2] /\ cov[3] - cov[2] < a) =>
                     p[2] * a <= CurveDen * CurveDen * (cov[1] * cov[3] - cov[2] * cov[2])

\* C24: generate_efficient_frontier_curve is deterministic and grid-based:
\* the same inputs give the same points, at most num_portfolios of them,
\* each the minimum-variance portfolio for a target return of the even grid
\* between the smallest and the largest mean return.
C24_GridCurve ==
    curvePhase \in {"curve", "curve_again"} =>
        /\ \A c \in 1..Len(curve_result) :
              /\ Len(curve_result[c]) <= curve_args.num_portfolios
              /\ \A i \in 1..Len(curve_result[c]) :
                    /\ OnGrid(curve_result[c][i], curve_args.returns, curve_args.num_portfolios)
                    /\ MinimumVariance(curve_result[c][i], curve_args.returns,
                                       curve_args.cov_matrix)
        /\ curvePhase = "curve_again" => curve_result[1] = curve_result[2]

\* a >= b for two values [inf, n, V] of the objective.
NotSmaller(a, b) ==
    IF a.inf # 0 \/ b.inf # 0 THEN a.inf >= b.inf
    ELSE RatioGeq(a.n, a.V, b.n, b.V)

\* C29: for a weight vector of zero volatility negative_sharpe_ratio returns
\* +infinity, a value not smaller than the one it returns for any weight
\* vector of positive volatility.
C29_ZeroVolatilityWorst ==
    (curvePhase = "objective"
        /\ PortfolioVariance(curve_args.weights, curve_args.cov_matrix) = 0) =>
        /\ curve_result.inf = 1
        /\ \A w \in RandomWeights :
              PortfolioVariance(w, curve_args.cov_matrix) > 0 =>
                  NotSmaller(curve_result,
                             negative_sharpe_ratio(w, curve_args.returns, curve_args.cov_matrix))


(***************************************************************************)
(* calculate_advanced_metrics: the tail loss and the Sortino ratio.        *)
(***************************************************************************)
\* The rows whose return perf / 100 is at or below the fraction v.
TailRows(v) == {i \in 1..risk_args.n : risk_args.perf[i] * v[2] <= 100 * v[1]}

\* The exact mean of the returns at or below var_95, var_95 when none is.
TailMean(v) ==
    IF TailRows(v) = {} THEN v
    ELSE <<SumSeq([i \in 1..risk_args.n |->
                     IF i \in TailRows(v) THEN risk_args.perf[i] ELSE 0]),
           100 * Cardinality(TailRows(v))>>

\* The float c = <<numerator, denominator, rounding>> is above the fraction v.
Above(c, v) == Gt(<<c[1], c[2]>>, v) \/ (Eq(<<c[1], c[2]>>, v) /\ c[3] > 0)

\* C26 as stated: cvar_95 is the mean of the returns at or below var_95,
\* var_95 itself when there is none, and so cvar_95 <= var_95.
C26_Original ==
    MetricsComputed =>
        /\ Eq(<<risk_result.cvar_95[1], risk_result.cvar_95[2]>>, TailMean(risk_result.var_95))
        /\ ~Above(risk_result.cvar_95, risk_result.var_95)

\* C26: cvar_95 is the floating-point mean of the returns at or below
\* var_95, var_95 itself when there is none, and cvar_95 <= var_95 whenever
\* fewer than three returns are at or below var_95.
C26_TailMean ==
    MetricsComputed =>
        /\ Eq(<<risk_result.cvar_95[1], risk_result.cvar_95[2]>>, TailMean(risk_result.var_95))
        /\ ~Gt(<<risk_result.cvar_95[1], risk_result.cvar_95[2]>>, risk_result.var_95)
        /\ Above(risk_result.cvar_95, risk_result.var_95)
              => Cardinality(TailRows(risk_result.var_95)) >= 3

\* C26 witness: three returns of which one is at or below var_95, and a
\* cvar_95 strictly below var_95.
C26_Witness ==
    /\ MetricsComputed
    /\ risk_args.n = 3
    /\ Cardinality(TailRows(risk_result.var_95)) = 1
    /\ Gt(risk_result.var_95, <<risk_result.cvar_95[1], risk_result.cvar_95[2]>>)

\* The weight of row i after normalisation.
RowWeight(i) ==
    IF SumSeq(risk_args.weight) > 0
    THEN Norm(<<risk_args.weight[i], SumSeq(risk_args.weight)>>)
    ELSE <<1, risk_args.n>>

\* 252 times the weighted mean return, less 0.02.
SharpeNumerator ==
    Sub(Mul(<<252, 100>>,
            SumQ([i \in 1..risk_args.n |-> Mul(RowWeight(i), <<risk_args.perf[i], 1>>)])),
        <<2, 100>>)

NegativeRows == {i \in 1..risk_args.n : risk_args.perf[i] < 0}

\* 252 times the variance of the strictly negative returns, as the mean of
\* their squares less the square of their mean.
DownsideSquared ==
    LET m == Cardinality(NegativeRows)
        sum == SumSeq([i \in 1..risk_args.n |->
                         IF i \in NegativeRows THEN risk_args.perf[i] ELSE 0])
        squares == SumSeq([i \in 1..risk_args.n |->
                         IF i \in NegativeRows THEN risk_args.perf[i] * risk_args.perf[i] ELSE 0])
    IN Norm(<<252 * (m * squares - sum * sum), 10000 * m * m>>)

\* 252 times the square of the volatility: the squared weights times the
\* squared distances of the returns to their plain mean.
VolatilitySquared ==
    LET n == risk_args.n
        sum == SumSeq(risk_args.perf)
    IN Mul(<<252, 1>>,
           SumQ([i \in 1..n |->
                   Mul(Sq(RowWeight(i)), Sq(Norm(<<n * risk_args.perf[i] - sum, 100 * n>>)))]))

\* C27: the Sortino ratio is the Sharpe numerator over the annualised
\* standard deviation of the strictly negative returns when there is one,
\* over the annualised volatility when there is none, and 0 when that
\* denominator is 0; a denominator that is 0 only in exact arithmetic (three
\* or more returns) can come out as a rounding residue, and the ratio is then
\* the same numerator over it.
C27_Sortino ==
    MetricsComputed =>
        LET den == IF NegativeRows # {} THEN DownsideSquared ELSE VolatilitySquared
            s == risk_result.sortino_ratio
        IN IF den[1] = 0
           THEN \/ s = Zero
                \/ /\ Len(s) = 4 /\ s[3] = 0
                   /\ Eq(<<s[1], s[2]>>, SharpeNumerator)
                   /\ (IF NegativeRows # {} THEN Cardinality(NegativeRows)
                       ELSE risk_args.n) >= 3
           ELSE /\ Len(s) = 4
                /\ Eq(<<s[1], s[2]>>, SharpeNumerator)
                /\ Eq(<<s[3], s[4]>>, den)

\* C27 witness: exactly one negative return next to a gain, so a downside
\* deviation of 0 and a ratio of 0 although the volatility is positive.
C27_Witness ==
    /\ MetricsComputed
    /\ risk_args.n = 2
    /\ Cardinality(NegativeRows) = 1
    /\ risk_args.perf[1] > 0
    /\ VolatilitySquared[1] > 0
    /\ risk_result.sortino_ratio = Zero

====
